---- MODULE Spec2Model ----
(***************************************************************************)
(* A model of build_epub.py: chapter discovery, the navigation document,   *)
(* the OPF package document, the optional formatting pass and the zip      *)
(* packaging of the working tree.                                          *)
(*                                                                         *)
(* Text is modelled as sequences of one-character strings, so that the     *)
(* regular expressions, str.split, str.strip, str.replace, str.startswith, *)
(* str.endswith and sorted() of the source are computed, not assumed.      *)
(***************************************************************************)
EXTENDS Integers, Sequences, FiniteSets, TLC

VARIABLES
    pc,          \* position of build_epub in its stages
    error,       \* the stage whose exception ended the run ("none" while running)
    events,      \* the side effects build_epub has performed so far, in order
    text_dir,    \* OEBPS/Text: filename -> file content
    chapters,    \* the list returned by discover_chapters
    sections,    \* the major-section configuration (MAJOR_SECTIONS)
    nav_tree,    \* front_items / parts_by_id as derived inside build_toc_xhtml
    toc_file,    \* OEBPS/toc.xhtml: the rendered lines of the nav body
    opf_file,    \* OEBPS/content.opf: manifest items and spine itemrefs
    fmt_result,  \* how the subprocess.run of the formatter ended
    tree,        \* the files below SCRIPT_DIR, as paths relative to it
    epub_pre,    \* whether OUTPUT_EPUB existed when the run started
    archive,     \* the entries written to the zip so far, in order
    walk_stack,  \* directories os.walk has still to visit (top first)
    visited      \* directories os.walk has yielded

vars == <<pc, error, events, text_dir, chapters, sections, nav_tree, toc_file,
          opf_file, fmt_result, tree, epub_pre, archive,
          walk_stack, visited>>

(***************************************************************************)
(* Literal strings of the source and the names used as inputs.             *)
(***************************************************************************)
OpenTitle == <<"<", "t", "i", "t", "l", "e", ">">>
CloseTitle == <<"<", "/", "t", "i", "t", "l", "e", ">">>
ChPrefix == <<"c", "h">>
XhtmlSuffix == <<".", "x", "h", "t", "m", "l">>
Hyphen == <<"-">>
EntRsquo == <<"&", "r", "s", "q", "u", "o", ";">>
EntLsquo == <<"&", "l", "s", "q", "u", "o", ";">>
EntRdquo == <<"&", "r", "d", "q", "u", "o", ";">>
EntLdquo == <<"&", "l", "d", "q", "u", "o", ";">>
EntAmp == <<"&", "a", "m", "p", ";">>
Amp == <<"&">>
TagB == <<"<", "b", ">">>
F_ch0_p == <<"c", "h", "0", "-", "p", ".", "x", "h", "t", "m", "l">>
F_ch1_a == <<"c", "h", "1", "-", "a", ".", "x", "h", "t", "m", "l">>
F_ch2_b == <<"c", "h", "2", "-", "b", ".", "x", "h", "t", "m", "l">>
F_ch3_a == <<"c", "h", "3", "-", "a", ".", "x", "h", "t", "m", "l">>
F_ch4 == <<"c", "h", "4", ".", "x", "h", "t", "m", "l">>
F_ch5_a_b == <<"c", "h", "5", "-", "a", "-", "b", ".", "x", "h", "t", "m", "l">>
F_cover == <<"c", "o", "v", "e", "r", ".", "x", "h", "t", "m", "l">>
F_ch7_txt == <<"c", "h", "7", "-", "n", ".", "t", "x", "t">>
Id_a == <<"a">>
Id_b == <<"b">>
Id_z == <<"z">>
N_mimetype == <<"m", "i", "m", "e", "t", "y", "p", "e">>
N_script == <<"b", "u", "i", "l", "d", "_", "e", "p", "u", "b", ".", "p", "y">>
N_output == <<"L", "i", "v", "i", "n", "g", " ", "E", "n", "l", "i", "g", "h", "t", "e", "n", "m", "e", "n", "t", " ", "-", " ", "U", "n", "a", "b", "r", "i", "d", "g", "e", "d", " ", "-", " ", "7", "t", "h", " ", "E", "d", "i", "t", "i", "o", "n", ".", "e", "p", "u", "b">>
N_dsstore == <<".", "D", "S", "_", "S", "t", "o", "r", "e">>
N_oebps == <<"O", "E", "B", "P", "S">>
N_text == <<"T", "e", "x", "t">>
N_toc == <<"t", "o", "c", ".", "x", "h", "t", "m", "l">>
N_opf == <<"c", "o", "n", "t", "e", "n", "t", ".", "o", "p", "f">>
N_metainf == <<"M", "E", "T", "A", "-", "I", "N", "F">>
N_container == <<"c", "o", "n", "t", "a", "i", "n", "e", "r", ".", "x", "m", "l">>
N_git == <<".", "g", "i", "t">>
N_config == <<"c", "o", "n", "f", "i", "g">>
N_pycache == <<"_", "_", "p", "y", "c", "a", "c", "h", "e", "_", "_">>
N_pyc == <<"m", ".", "p", "y", "c">>
N_styles == <<"S", "t", "y", "l", "e", "s">>
N_css == <<"s", "t", "y", "l", "e", ".", "c", "s", "s">>
N_gitignore == <<".", "g", "i", "t", "i", "g", "n", "o", "r", "e">>
N_old_epub == <<"o", "l", "d", ".", "e", "p", "u", "b">>
N_tool_py == <<"t", "o", "o", "l", ".", "p", "y">>
SufPy == <<".", "p", "y">>
SufEpub == <<".", "e", "p", "u", "b">>
SufDsStore == <<".", "D", "S", "_", "S", "t", "o", "r", "e">>
Dot == <<".">>
Sec1_flow == <<"f", "l", "o", "w", "-", "i", "n", "-", "l", "o", "v", "e">>
Sec1_worry == <<"t", "h", "e", "r", "e", "-", "i", "s", "-", "n", "o", "t", "h", "i", "n", "g", "-", "t", "o", "-", "w", "o", "r", "r", "y">>
Sec1_stress == <<"e", "x", "c", "e", "l", "-", "w", "i", "t", "h", "o", "u", "t", "-", "s", "t", "r", "e", "s", "s">>
Sec1_fears == <<"f", "a", "c", "e", "-", "y", "o", "u", "r", "-", "f", "e", "a", "r", "s", "-", "a", "n", "d", "-", "b", "e", "-", "f", "r", "e", "e">>
Sec1_title == <<"I", ".", " ", "Y", "O", "U", " ", "A", "R", "E", " ", "Y", "O", "U", "R", " ", "E", "M", "O", "T", "I", "O", "N", "S">>
TextSlash == <<"T", "e", "x", "t", "/">>
Id_cover_image == <<"c", "o", "v", "e", "r", "-", "i", "m", "a", "g", "e">>
Id_style == <<"s", "t", "y", "l", "e">>
Id_nav == <<"n", "a", "v">>
Id_cover == <<"c", "o", "v", "e", "r">>
Id_title_page == <<"t", "i", "t", "l", "e", "-", "p", "a", "g", "e">>
Href_cover_image == <<"I", "m", "a", "g", "e", "s", "/", "c", "o", "v", "e", "r", ".", "j", "p", "g">>
Href_style == <<"S", "t", "y", "l", "e", "s", "/", "s", "t", "y", "l", "e", ".", "c", "s", "s">>
Href_nav == <<"t", "o", "c", ".", "x", "h", "t", "m", "l">>
Href_cover == <<"T", "e", "x", "t", "/", "c", "o", "v", "e", "r", ".", "x", "h", "t", "m", "l">>
Href_title_page == <<"T", "e", "x", "t", "/", "t", "i", "t", "l", "e", "-", "p", "a", "g", "e", ".", "x", "h", "t", "m", "l">>
N_pydir == <<"d", ".", "p", "y">>
DocTitleP == <<"P", "a", "r", "t">>
CharOrder == <<" ", "&", "-", ".", "/", "0", "1", "2", "3", "4", "5", "6", "7", "8", "9", ";", "<", "=", ">", "A", "B", "C", "D", "E", "F", "G", "H", "I", "J", "K", "L", "M", "N", "O", "P", "Q", "R", "S", "T", "U", "V", "W", "X", "Y", "Z", "_", "a", "b", "c", "d", "e", "f", "g", "h", "i", "j", "k", "l", "m", "n", "o", "p", "q", "r", "s", "t", "u", "v", "w", "x", "y", "z">>

(***************************************************************************)
(* Bounds of the model.                                                    *)
(***************************************************************************)
MaxPieces == 5
MaxFiles == 3
MaxChapters == 4
MaxConfigSize == 4
MaxTreeFiles == 5

(***************************************************************************)
(* String primitives of Python, on sequences of characters.                *)
(***************************************************************************)
Min(S) == CHOOSE m \in S : \A x \in S : m <= x

HasAt(s, p, i) ==
    /\ i >= 1
    /\ i + Len(p) - 1 <= Len(s)
    /\ SubSeq(s, i, i + Len(p) - 1) = p

\* str.find(p, i): the first index >= i at which p occurs, 0 when there is none
FindFrom(s, p, i) ==
    LET hits == {j \in i..Len(s) : HasAt(s, p, j)}
    IN  IF hits = {} THEN 0 ELSE Min(hits)

startswith(s, p) == HasAt(s, p, 1)

endswith(s, p) == Len(p) <= Len(s) /\ HasAt(s, p, Len(s) - Len(p) + 1)

\* s.split(sep, 1)
split_once(s, sep) ==
    LET i == FindFrom(s, sep, 1)
    IN  IF i = 0 THEN <<s>>
        ELSE <<SubSeq(s, 1, i - 1), SubSeq(s, i + Len(sep), Len(s))>>

Whitespace == {" ", "\n", "\t"}

RECURSIVE lstrip(_)
lstrip(s) == IF s # <<>> /\ Head(s) \in Whitespace THEN lstrip(Tail(s)) ELSE s

RECURSIVE rstrip(_)
rstrip(s) ==
    IF s # <<>> /\ s[Len(s)] \in Whitespace THEN rstrip(SubSeq(s, 1, Len(s) - 1)) ELSE s

strip(s) == rstrip(lstrip(s))

RECURSIVE replace(_, _, _)
replace(s, old, new) ==
    IF s = <<>> THEN <<>>
    ELSE IF HasAt(s, old, 1)
         THEN new \o replace(SubSeq(s, Len(old) + 1, Len(s)), old, new)
         ELSE <<Head(s)>> \o replace(Tail(s), old, new)

\* re.sub(r"<[^>]+>", "", s): a tag runs from "<" to the first ">" after it and
\* holds at least one character between them
RECURSIVE sub_tags(_)
sub_tags(s) ==
    IF s = <<>> THEN <<>>
    ELSE IF Head(s) = "<"
         THEN LET q == FindFrom(s, <<">">>, 2)
              IN  IF q > 2 THEN sub_tags(SubSeq(s, q + 1, Len(s)))
                  ELSE <<Head(s)>> \o sub_tags(Tail(s))
         ELSE <<Head(s)>> \o sub_tags(Tail(s))

\* the order of characters by code point, and sorted() on a set of strings
CharCode(c) == CHOOSE i \in 1..Len(CharOrder) : CharOrder[i] = c

RECURSIVE LexLess(_, _)
LexLess(a, b) ==
    IF b = <<>> THEN FALSE
    ELSE IF a = <<>> THEN TRUE
    ELSE IF Head(a) = Head(b) THEN LexLess(Tail(a), Tail(b))
    ELSE CharCode(Head(a)) < CharCode(Head(b))

RECURSIVE sorted(_)
sorted(S) ==
    IF S = {} THEN <<>>
    ELSE LET m == CHOOSE x \in S : \A y \in S \ {x} : LexLess(x, y)
         IN  <<m>> \o sorted(S \ {m})

(***************************************************************************)
(* discover_chapters                                                       *)
(***************************************************************************)
\* re.search(r"<title>(.*?)</title>", content, re.DOTALL): <<>> when there is
\* no match, else <<group(1)>>
title_match(content) ==
    LET i == FindFrom(content, OpenTitle, 1)
        j == IF i = 0 THEN 0 ELSE FindFrom(content, CloseTitle, i + Len(OpenTitle))
    IN  IF j = 0 THEN <<>> ELSE <<SubSeq(content, i + Len(OpenTitle), j - 1)>>

chapter_id_of(filename) ==
    LET stem  == SubSeq(filename, 1, Len(filename) - 6)
        parts == split_once(stem, Hyphen)
    IN  IF Len(parts) > 1 THEN parts[2] ELSE stem

decode_entities(title) ==
    replace(replace(replace(replace(replace(title,
        EntRsquo, <<"U+2019">>),
        EntLsquo, <<"U+2018">>),
        EntRdquo, <<"U+201D">>),
        EntLdquo, <<"U+201C">>),
        EntAmp, Amp)

extract_title(content, chapter_id) ==
    LET m  == title_match(content)
        t0 == IF m # <<>> THEN strip(m[1]) ELSE chapter_id
    IN  decode_entities(sub_tags(t0))

\* file.section_type is the epub:type of the first <section ...> tag that carries
\* one ("none" when no tag matches)
level_of(file) ==
    LET epub_type == IF file.section_type # "none" THEN file.section_type ELSE "chapter"
    IN  IF epub_type = "part" THEN 2 ELSE 3

chapter_filenames(dir) ==
    sorted({f \in DOMAIN dir : startswith(f, ChPrefix) /\ endswith(f, XhtmlSuffix)})

discover_chapters(dir) ==
    LET filenames == chapter_filenames(dir)
    IN  [i \in 1..Len(filenames) |->
            [filename |-> filenames[i],
             id       |-> chapter_id_of(filenames[i]),
             title    |-> extract_title(dir[filenames[i]].text, chapter_id_of(filenames[i])),
             level    |-> level_of(dir[filenames[i]])]]

(***************************************************************************)
(* The working tree and the initial state of a run.                        *)
(***************************************************************************)
MAJOR_SECTIONS ==
    <<[title |-> Sec1_title,
       part_ids |-> <<Sec1_flow, Sec1_worry, Sec1_stress, Sec1_fears>>]>>

OUTPUT_EPUB == <<N_output>>

MimetypePath == <<N_mimetype>>

TocPath == <<N_oebps, N_toc>>

OpfPath == <<N_oebps, N_opf>>

\* the files maintained on disk beside the chapters
StaticFiles ==
    {MimetypePath, <<N_script>>, <<N_metainf, N_container>>,
     <<N_oebps, N_styles, N_css>>}

TreeOf(dir) == StaticFiles \cup {<<N_oebps, N_text, f>> : f \in DOMAIN dir}

EmptyDict == [keys |-> <<>>, val |-> <<>>]

EmptyTree == [front_items |-> <<>>, parts_by_id |-> EmptyDict, current_part_id |-> <<>>]

EmptyOpf == [manifest |-> <<>>, spine |-> <<>>]

(***************************************************************************)
(* build_content_opf                                                       *)
(***************************************************************************)
chapter_item_id(filename) == split_once(filename, Hyphen)[1]

Item(id, href) == [id |-> id, href |-> href]

FixedManifest ==
    <<Item(Id_cover_image, Href_cover_image), Item(Id_style, Href_style),
      Item(Id_nav, Href_nav), Item(Id_cover, Href_cover),
      Item(Id_title_page, Href_title_page)>>

FixedSpine == <<Id_cover, Id_title_page, Id_nav>>

\* a variant of opf_append that puts the chapter's slug in the spine
opf_append_slug(opf, ch) ==
    [manifest |-> Append(opf.manifest,
                         Item(chapter_item_id(ch.filename), TextSlash \o ch.filename)),
     spine    |-> Append(opf.spine, ch.id)]

\* the body of "for ch in chapters" of build_content_opf
opf_append(opf, ch) ==
    LET item_id == chapter_item_id(ch.filename)
    IN  [manifest |-> Append(opf.manifest, Item(item_id, TextSlash \o ch.filename)),
         spine    |-> Append(opf.spine, item_id)]

RECURSIVE opf_loop(_, _)
opf_loop(opf, chs) ==
    IF chs = <<>> THEN opf ELSE opf_loop(opf_append(opf, Head(chs)), Tail(chs))

build_content_opf(chs) ==
    opf_loop([manifest |-> FixedManifest, spine |-> FixedSpine], chs)

(***************************************************************************)
(* build_toc_xhtml                                                         *)
(***************************************************************************)
\* a variant of dict_set in which assigning to a present key moves it to the end
dict_set_moves_key(d, k, v) ==
    [keys |-> Append(SelectSeq(d.keys, LAMBDA x : x # k), k),
     val  |-> [x \in DOMAIN d.val \cup {k} |-> IF x = k THEN v ELSE d.val[x]]]

\* a Python dict: its keys in insertion order and its values; assigning to a key
\* that is present keeps the key's place
dict_set(d, k, v) ==
    [keys |-> IF k \in DOMAIN d.val THEN d.keys ELSE Append(d.keys, k),
     val  |-> [x \in DOMAIN d.val \cup {k} |-> IF x = k THEN v ELSE d.val[x]]]

Entry(ch) == [title |-> ch.title, href |-> TextSlash \o ch.filename]

\* a variant of scan_step in which a repeated part id keeps the children it has
scan_step_keeps_children(st, ch) ==
    IF ch.level = 2
    THEN [st EXCEPT !.current_part_id = <<ch.id>>,
                    !.parts_by_id = dict_set(@, ch.id,
                        [title |-> ch.title, href |-> TextSlash \o ch.filename,
                         children |-> IF ch.id \in DOMAIN st.parts_by_id.val
                                      THEN st.parts_by_id.val[ch.id].children
                                      ELSE <<>>])]
    ELSE IF st.current_part_id # <<>>
         THEN [st EXCEPT !.parts_by_id.val[st.current_part_id[1]].children =
                             Append(@, [title |-> ch.title, href |-> TextSlash \o ch.filename])]
         ELSE [st EXCEPT !.front_items =
                             Append(@, [title |-> ch.title, href |-> TextSlash \o ch.filename])]

\* the body of "for ch in chapters" of build_toc_xhtml; current_part_id is <<>>
\* for None and <<id>> otherwise
scan_step(st, ch) ==
    IF ch.level = 2
    THEN [st EXCEPT !.current_part_id = <<ch.id>>,
                    !.parts_by_id = dict_set(@, ch.id,
                        [title |-> ch.title, href |-> TextSlash \o ch.filename,
                         children |-> <<>>])]
    ELSE IF st.current_part_id # <<>>
         THEN [st EXCEPT !.parts_by_id.val[st.current_part_id[1]].children =
                             Append(@, Entry(ch))]
         ELSE [st EXCEPT !.front_items = Append(@, Entry(ch))]

RECURSIVE scan_loop(_, _)
scan_loop(st, chs) ==
    IF chs = <<>> THEN st ELSE scan_loop(scan_step(st, Head(chs)), Tail(chs))

derive_tree(chs) == scan_loop(EmptyTree, chs)

\* one appended line of the nav body: which literal line it is, and the href and
\* title interpolated into it (<<>> where the line has none)
Line(kind, href, title) == [kind |-> kind, href |-> href, title |-> title]

render_front(front_items) ==
    <<Line("ol_front_matter", <<>>, <<>>)>>
    \o [i \in 1..Len(front_items) |->
            Line("li_front", front_items[i].href, front_items[i].title)]
    \o <<Line("ol_end", <<>>, <<>>)>>

\* the lines of one part: its link, and the nested list when it has children
render_part(part) ==
    <<Line("li_part", <<>>, <<>>), Line("a_part", part.href, part.title)>>
    \o (IF part.children # <<>>
        THEN <<Line("ol_chapters", <<>>, <<>>)>>
             \o [i \in 1..Len(part.children) |->
                     Line("li_chapter", part.children[i].href, part.children[i].title)]
             \o <<Line("ol_chapters_end", <<>>, <<>>)>>
        ELSE <<>>)
    \o <<Line("li_part_end", <<>>, <<>>)>>

\* "for pid in part_ids": ids missing from parts_by_id are skipped
RECURSIVE render_part_ids(_, _)
render_part_ids(part_ids, parts_by_id) ==
    IF part_ids = <<>> THEN <<>>
    ELSE (IF Head(part_ids) \notin DOMAIN parts_by_id.val THEN <<>>
          ELSE render_part(parts_by_id.val[Head(part_ids)]))
         \o render_part_ids(Tail(part_ids), parts_by_id)

RECURSIVE render_sections(_, _)
render_sections(config, parts_by_id) ==
    IF config = <<>> THEN <<>>
    ELSE <<Line("h2", <<>>, Head(config).title), Line("ol_parts", <<>>, <<>>)>>
         \o render_part_ids(Head(config).part_ids, parts_by_id)
         \o <<Line("ol_end", <<>>, <<>>)>>
         \o render_sections(Tail(config), parts_by_id)

\* part_ids_used after the loop over the configured sections
part_ids_used(config, parts_by_id) ==
    {pid \in DOMAIN parts_by_id.val :
        \E s \in 1..Len(config) : \E k \in 1..Len(config[s].part_ids) :
            config[s].part_ids[k] = pid}

orphan_parts(config, parts_by_id) ==
    SelectSeq(parts_by_id.keys,
              LAMBDA pid : pid \notin part_ids_used(config, parts_by_id))

render_orphans(config, parts_by_id) ==
    LET orphans == orphan_parts(config, parts_by_id)
    IN  IF orphans = <<>> THEN <<>>
        ELSE <<Line("ol_parts", <<>>, <<>>)>>
             \o render_part_ids(orphans, parts_by_id)
             \o <<Line("ol_end", <<>>, <<>>)>>

build_toc_xhtml(chs, config) ==
    LET t == derive_tree(chs)
    IN  [tree  |-> t,
         lines |-> render_front(t.front_items)
                   \o render_sections(config, t.parts_by_id)
                   \o render_orphans(config, t.parts_by_id)]

\* the state build_epub starts in, for a given OEBPS/Text, configuration and tree
StartOfRun(dir, config, files, existing) ==
    /\ pc = "discover"
    /\ error = "none"
    /\ events = <<>>
    /\ text_dir = dir
    /\ chapters = <<>>
    /\ sections = config
    /\ nav_tree = EmptyTree
    /\ toc_file = <<>>
    /\ opf_file = EmptyOpf
    /\ fmt_result = "none"
    /\ tree = files
    /\ epub_pre = existing
    /\ archive = <<>>
    /\ walk_stack = <<>>
    /\ visited = {}

(***************************************************************************)
(* build_epub, stage by stage.                                             *)
(***************************************************************************)
\* chapters = discover_chapters()
DiscoverOk ==
    /\ pc = "discover"
    /\ chapters' = discover_chapters(text_dir)
    /\ pc' = "write_toc"
    /\ UNCHANGED <<error, events, text_dir, sections, nav_tree, toc_file, opf_file,
                   fmt_result, tree, epub_pre, archive, walk_stack,
                   visited>>

\* a variant of DiscoverFail that swallows the error and goes on with the
\* chapters read so far
DiscoverFail_partial_list ==
    /\ pc = "discover"
    /\ error' = "discover"
    /\ \E n \in 0..Len(discover_chapters(text_dir)) :
           chapters' = SubSeq(discover_chapters(text_dir), 1, n)
    /\ pc' = "write_toc"
    /\ UNCHANGED <<events, text_dir, sections, nav_tree, toc_file, opf_file,
                   fmt_result, tree, epub_pre, archive, walk_stack, visited>>

\* os.listdir raises, or open()/read() of a chapter file raises: nothing is returned
DiscoverFail ==
    /\ pc = "discover"
    /\ \E cause \in {"listdir"} \cup
                    (IF chapter_filenames(text_dir) # <<>> THEN {"read"} ELSE {}) :
           error' = "discover"
    /\ pc' = "aborted"
    /\ UNCHANGED <<events, text_dir, chapters, sections, nav_tree, toc_file, opf_file,
                   fmt_result, tree, epub_pre, archive, walk_stack,
                   visited>>

\* with open(toc_path, "w") as f: f.write(build_toc_xhtml(chapters))
WriteTocOk ==
    /\ pc = "write_toc"
    /\ nav_tree' = build_toc_xhtml(chapters, sections).tree
    /\ toc_file' = build_toc_xhtml(chapters, sections).lines
    /\ tree' = tree \cup {TocPath}
    /\ events' = Append(events, "write_toc")
    /\ pc' = "write_opf"
    /\ UNCHANGED <<error, text_dir, chapters, sections, opf_file, fmt_result,
                   epub_pre, archive, walk_stack, visited>>

\* open() or write() of toc.xhtml raises
WriteTocFail ==
    /\ pc = "write_toc"
    /\ error' = "write_toc"
    /\ pc' = "aborted"
    /\ UNCHANGED <<events, text_dir, chapters, sections, nav_tree, toc_file, opf_file,
                   fmt_result, tree, epub_pre, archive, walk_stack, visited>>

\* with open(opf_path, "w") as f: f.write(build_content_opf(chapters))
WriteOpfOk ==
    /\ pc = "write_opf"
    /\ opf_file' = build_content_opf(chapters)
    /\ tree' = tree \cup {OpfPath}
    /\ events' = Append(events, "write_opf")
    /\ pc' = "format"
    /\ UNCHANGED <<error, text_dir, chapters, sections, nav_tree, toc_file,
                   fmt_result, epub_pre, archive, walk_stack, visited>>

\* a variant of WriteOpfFail that swallows the error and goes on to format
WriteOpfFail_swallowed ==
    /\ pc = "write_opf"
    /\ error' = "write_opf"
    /\ pc' = "format"
    /\ UNCHANGED <<events, text_dir, chapters, sections, nav_tree, toc_file, opf_file,
                   fmt_result, tree, epub_pre, archive, walk_stack, visited>>

\* open() or write() of content.opf raises
WriteOpfFail ==
    /\ pc = "write_opf"
    /\ error' = "write_opf"
    /\ pc' = "aborted"
    /\ UNCHANGED <<events, text_dir, chapters, sections, nav_tree, toc_file, opf_file,
                   fmt_result, tree, epub_pre, archive, walk_stack, visited>>

\* the exceptions of subprocess.run that the except clause names
CaughtFormatErrors == {"CalledProcessError", "FileNotFoundError"}

\* what subprocess.run(["npx", "prettier", ...], check=True) can raise: the
\* executable is missing, it exits non-zero, or the launch fails otherwise (an
\* OSError that is no FileNotFoundError: permission denied, argument list too long)
FormatErrors == {"CalledProcessError", "FileNotFoundError", "OSError"}

\* subprocess.run returns normally
FormatOk ==
    /\ pc = "format"
    /\ fmt_result' = "ok"
    /\ events' = Append(events, "format")
    /\ pc' = "remove"
    /\ UNCHANGED <<error, text_dir, chapters, sections, nav_tree, toc_file, opf_file,
                   tree, epub_pre, archive, walk_stack, visited>>

\* subprocess.run raises an exception the except clause catches
FormatSkipped ==
    /\ pc = "format"
    /\ \E e \in FormatErrors \cap CaughtFormatErrors : fmt_result' = e
    /\ events' = Append(events, "format")
    /\ pc' = "remove"
    /\ UNCHANGED <<error, text_dir, chapters, sections, nav_tree, toc_file, opf_file,
                   tree, epub_pre, archive, walk_stack, visited>>

\* subprocess.run raises an exception the except clause does not catch
FormatRaises ==
    /\ pc = "format"
    /\ \E e \in FormatErrors \ CaughtFormatErrors : fmt_result' = e
    /\ events' = Append(events, "format")
    /\ error' = "format"
    /\ pc' = "aborted"
    /\ UNCHANGED <<text_dir, chapters, sections, nav_tree, toc_file, opf_file,
                   tree, epub_pre, archive, walk_stack, visited>>

\* if os.path.exists(OUTPUT_EPUB): os.remove(OUTPUT_EPUB)
RemoveExistingOk ==
    /\ pc = "remove"
    /\ OUTPUT_EPUB \in tree
    /\ tree' = tree \ {OUTPUT_EPUB}
    /\ events' = Append(events, "remove")
    /\ pc' = "create"
    /\ UNCHANGED <<error, text_dir, chapters, sections, nav_tree, toc_file, opf_file,
                   fmt_result, epub_pre, archive, walk_stack, visited>>

\* os.remove raises
RemoveExistingFail ==
    /\ pc = "remove"
    /\ OUTPUT_EPUB \in tree
    /\ error' = "remove"
    /\ pc' = "aborted"
    /\ UNCHANGED <<events, text_dir, chapters, sections, nav_tree, toc_file, opf_file,
                   fmt_result, tree, epub_pre, archive, walk_stack, visited>>

\* os.path.exists(OUTPUT_EPUB) is false
NothingToRemove ==
    /\ pc = "remove"
    /\ OUTPUT_EPUB \notin tree
    /\ pc' = "create"
    /\ UNCHANGED <<error, events, text_dir, chapters, sections, nav_tree, toc_file,
                   opf_file, fmt_result, tree, epub_pre, archive, walk_stack, visited>>

\* zipfile.ZipFile(OUTPUT_EPUB, "w", ...) creates the file
CreateArchiveOk ==
    /\ pc = "create"
    /\ tree' = tree \cup {OUTPUT_EPUB}
    /\ archive' = <<>>
    /\ events' = Append(events, "create")
    /\ pc' = "mimetype"
    /\ UNCHANGED <<error, text_dir, chapters, sections, nav_tree, toc_file, opf_file,
                   fmt_result, epub_pre, walk_stack, visited>>

\* zipfile.ZipFile(...) raises
CreateArchiveFail ==
    /\ pc = "create"
    /\ error' = "create"
    /\ pc' = "aborted"
    /\ UNCHANGED <<events, text_dir, chapters, sections, nav_tree, toc_file, opf_file,
                   fmt_result, tree, epub_pre, archive, walk_stack, visited>>

ZipEntry(arcname, compress_type) == [arcname |-> arcname, compress_type |-> compress_type]

\* epub.write(mimetype_path, "mimetype", compress_type=zipfile.ZIP_STORED); the
\* walk then starts at SCRIPT_DIR, the empty relative path
WriteMimetypeOk ==
    /\ pc = "mimetype"
    /\ MimetypePath \in tree
    /\ archive' = Append(archive, ZipEntry(MimetypePath, "ZIP_STORED"))
    /\ walk_stack' = <<<<>>>>
    /\ pc' = "walk"
    /\ UNCHANGED <<error, events, text_dir, chapters, sections, nav_tree, toc_file,
                   opf_file, fmt_result, tree, epub_pre, visited>>

\* the mimetype file is missing or cannot be read: epub.write raises
WriteMimetypeFail ==
    /\ pc = "mimetype"
    /\ error' = "mimetype"
    /\ pc' = "aborted"
    /\ UNCHANGED <<events, text_dir, chapters, sections, nav_tree, toc_file, opf_file,
                   fmt_result, tree, epub_pre, archive, walk_stack, visited>>

IsPrefix(d, p) == Len(d) <= Len(p) /\ SubSeq(p, 1, Len(d)) = d

\* the names os.walk lists in directory d
FilenamesIn(d) == {p[Len(p)] : p \in {q \in tree : Len(q) = Len(d) + 1 /\ IsPrefix(d, q)}}

DirnamesIn(d) == {p[Len(d) + 1] : p \in {q \in tree : Len(q) > Len(d) + 1 /\ IsPrefix(d, q)}}

\* a variant of KeepDir that forgets the hidden directories
KeepDir_hidden_kept(d) == d # N_pycache

\* dirnames[:] = [d for d in dirnames if not d.startswith(".") and d != "__pycache__"]
KeepDir(d) == ~startswith(d, Dot) /\ d # N_pycache

\* a variant of SkipFile without the test for the mimetype entry
SkipFile_without_mimetype(arcname, filename) ==
    \/ endswith(filename, SufPy)
    \/ endswith(filename, SufEpub)
    \/ endswith(filename, SufDsStore)

\* the two "continue" tests of the walk
SkipFile(arcname, filename) ==
    \/ arcname = MimetypePath
    \/ endswith(filename, SufPy)
    \/ endswith(filename, SufEpub)
    \/ endswith(filename, SufDsStore)

\* "for filename in sorted(filenames)": the entries one directory adds
RECURSIVE walk_files(_, _)
walk_files(d, filenames) ==
    IF filenames = <<>> THEN <<>>
    ELSE (IF SkipFile(d \o <<Head(filenames)>>, Head(filenames)) THEN <<>>
          ELSE <<ZipEntry(d \o <<Head(filenames)>>, "ZIP_DEFLATED")>>)
         \o walk_files(d, Tail(filenames))

Orderings(S) ==
    {s \in [1..Cardinality(S) -> S] : \A i, j \in 1..Cardinality(S) : s[i] = s[j] => i = j}

\* one iteration of "for dirpath, dirnames, filenames in os.walk(SCRIPT_DIR)":
\* os.walk goes top-down and lists the subdirectories in the order of the
\* filesystem, which is any order
WalkDir ==
    /\ pc = "walk"
    /\ walk_stack # <<>>
    /\ LET d == Head(walk_stack)
           kept == {n \in DirnamesIn(d) : KeepDir(n)}
       IN  /\ \E order \in Orderings(kept) :
                  walk_stack' = [i \in 1..Len(order) |-> d \o <<order[i]>>]
                                \o Tail(walk_stack)
           /\ archive' = archive \o walk_files(d, sorted(FilenamesIn(d)))
           /\ visited' = visited \cup {d}
    /\ UNCHANGED <<pc, error, events, text_dir, chapters, sections, nav_tree, toc_file,
                   opf_file, fmt_result, tree, epub_pre>>

\* a file cannot be read during the walk: epub.write raises
WalkDirFail ==
    /\ pc = "walk"
    /\ walk_stack # <<>>
    /\ FilenamesIn(Head(walk_stack)) # {}
    /\ error' = "walk"
    /\ pc' = "aborted"
    /\ UNCHANGED <<events, text_dir, chapters, sections, nav_tree, toc_file, opf_file,
                   fmt_result, tree, epub_pre, archive, walk_stack, visited>>

\* the walk is over and the with block closes the archive
WalkDone ==
    /\ pc = "walk"
    /\ walk_stack = <<>>
    /\ pc' = "done"
    /\ UNCHANGED <<error, events, text_dir, chapters, sections, nav_tree, toc_file,
                   opf_file, fmt_result, tree, epub_pre, archive, walk_stack, visited>>

(***************************************************************************)
(* Title extraction: one chapter file whose text is built from pieces.     *)
(***************************************************************************)
TitlePieces == {OpenTitle, CloseTitle, <<" ">>, <<"a">>, TagB, EntAmp, EntRsquo}

RECURSIVE Join(_)
Join(ps) == IF ps = <<>> THEN <<>> ELSE Head(ps) \o Join(Tail(ps))

TitleTexts == {Join(ps) : ps \in UNION {[1..n -> TitlePieces] : n \in 0..MaxPieces}}

TitleFilenames == {F_ch0_p, F_ch4}

InitTitle ==
    \E f \in TitleFilenames, txt \in TitleTexts :
        LET dir == (f :> [text |-> txt, section_type |-> "none"])
        IN  StartOfRun(dir, MAJOR_SECTIONS, TreeOf(dir), FALSE)

NextTitle == DiscoverOk \/ DiscoverFail

SpecTitle == InitTitle /\ [][NextTitle]_vars

(***************************************************************************)
(* The whole run of build_epub.                                            *)
(***************************************************************************)
\* a part whose document has a title element, and a chapter whose document has
\* none (its title falls back to its id)
PartDoc == [text |-> OpenTitle \o DocTitleP \o CloseTitle, section_type |-> "part"]

ChapterDoc == [text |-> <<>>, section_type |-> "chapter"]

DocSamples == {PartDoc, ChapterDoc}

\* two of the chapter files share the slug "a"; one has no hyphen
ChapterFiles == {F_ch0_p, F_ch1_a, F_ch2_b, F_ch3_a, F_ch4}

\* OEBPS/Text also holds files that are no chapters
TextFiles == ChapterFiles \cup {F_ch5_a_b, F_cover, F_ch7_txt}

DirsOver(universe, n) ==
    UNION {[names -> DocSamples] :
               names \in {S \in SUBSET universe : Cardinality(S) <= n}}

Init ==
    \E dir \in DirsOver(TextFiles, MaxFiles), existing \in BOOLEAN :
        StartOfRun(dir, MAJOR_SECTIONS,
                   TreeOf(dir) \cup (IF existing THEN {OUTPUT_EPUB} ELSE {}),
                   existing)

Next ==
    \/ DiscoverOk
    \/ DiscoverFail
    \/ WriteTocOk
    \/ WriteTocFail
    \/ WriteOpfOk
    \/ WriteOpfFail
    \/ FormatOk
    \/ FormatSkipped
    \/ FormatRaises
    \/ RemoveExistingOk
    \/ RemoveExistingFail
    \/ NothingToRemove
    \/ CreateArchiveOk
    \/ CreateArchiveFail
    \/ WriteMimetypeOk
    \/ WriteMimetypeFail
    \/ WalkDir
    \/ WalkDirFail
    \/ WalkDone

Spec == Init /\ [][Next]_vars

(***************************************************************************)
(* The two generated documents, from every chapter list.                   *)
(***************************************************************************)
\* the state after discover_chapters returned, for a given OEBPS/Text
AfterDiscovery(dir, config) ==
    /\ pc = "write_toc"
    /\ error = "none"
    /\ events = <<>>
    /\ text_dir = dir
    /\ chapters = discover_chapters(dir)
    /\ sections = config
    /\ nav_tree = EmptyTree
    /\ toc_file = <<>>
    /\ opf_file = EmptyOpf
    /\ fmt_result = "none"
    /\ tree = TreeOf(dir)
    /\ epub_pre = FALSE
    /\ archive = <<>>
    /\ walk_stack = <<>>
    /\ visited = {}

InitOpf == \E dir \in DirsOver(TextFiles, MaxChapters) : AfterDiscovery(dir, MAJOR_SECTIONS)

NextOpf == WriteTocOk \/ WriteTocFail \/ WriteOpfOk \/ WriteOpfFail

SpecOpf == InitOpf /\ [][NextOpf]_vars

\* the part ids a configuration may name: two that chapter files carry and one
\* that none does
ConfigIds == {Id_a, Id_b, Id_z}

PartIdLists(n) == UNION {[1..k -> ConfigIds] : k \in 0..n}

\* every configuration of the given size, a section counting one plus the
\* number of part ids it lists; a section's title is its position from the end
Digits == <<"1", "2", "3", "4", "5", "6", "7", "8", "9">>

RECURSIVE ConfigsOfSize(_)
ConfigsOfSize(n) ==
    IF n = 0 THEN {<<>>}
    ELSE UNION {{<<[title |-> <<"S", Digits[n]>>, part_ids |-> ids]>> \o rest :
                     rest \in ConfigsOfSize(n - 1 - Len(ids))} :
                ids \in PartIdLists(n - 1)}

Configs == UNION {ConfigsOfSize(n) : n \in 0..MaxConfigSize}

InitNav ==
    \E dir \in DirsOver(ChapterFiles, MaxChapters), config \in Configs : AfterDiscovery(dir, config)

NextNav == WriteTocOk \/ WriteTocFail

SpecNav == InitNav /\ [][NextNav]_vars

(***************************************************************************)
(* Packaging, from every working tree.                                     *)
(***************************************************************************)
PathUniverse ==
    {MimetypePath, <<N_script>>, <<N_dsstore>>, <<N_gitignore>>, OUTPUT_EPUB,
     <<N_pydir, N_config>>, <<N_git, N_config>>, <<N_git, N_oebps, N_toc>>,
     <<N_pycache, N_pyc>>, <<N_metainf, N_container>>,
     TocPath, <<N_oebps, N_mimetype>>, <<N_oebps, N_tool_py>>,
     <<N_oebps, N_pycache, N_pyc>>, <<N_oebps, N_text, F_ch0_p>>,
     <<N_oebps, N_text, N_old_epub>>}

Trees == {S \in SUBSET PathUniverse : Cardinality(S) <= MaxTreeFiles}

\* the state in which Step 4 of build_epub starts, for a given working tree
StartOfPackaging(files) ==
    /\ pc = "remove"
    /\ error = "none"
    /\ events = <<"write_toc", "write_opf", "format">>
    /\ text_dir = <<>>
    /\ chapters = <<>>
    /\ sections = MAJOR_SECTIONS
    /\ nav_tree = build_toc_xhtml(<<>>, MAJOR_SECTIONS).tree
    /\ toc_file = build_toc_xhtml(<<>>, MAJOR_SECTIONS).lines
    /\ opf_file = build_content_opf(<<>>)
    /\ fmt_result = "ok"
    /\ tree = files \cup {TocPath, OpfPath}
    /\ epub_pre = (OUTPUT_EPUB \in files)
    /\ archive = <<>>
    /\ walk_stack = <<>>
    /\ visited = {}

InitPkg == \E files \in Trees : StartOfPackaging(files)

NextPkg ==
    \/ RemoveExistingOk
    \/ RemoveExistingFail
    \/ NothingToRemove
    \/ CreateArchiveOk
    \/ CreateArchiveFail
    \/ WriteMimetypeOk
    \/ WriteMimetypeFail
    \/ WalkDir
    \/ WalkDirFail
    \/ WalkDone

SpecPkg == InitPkg /\ [][NextPkg]_vars

(***************************************************************************)
(* Properties.                                                             *)
(***************************************************************************)
Range(s) == {s[i] : i \in DOMAIN s}

HrefOf(ch) == TextSlash \o ch.filename

\* the positions of toc_file that hold a link of the given kind to the href
LinksTo(kind, href) ==
    {k \in DOMAIN toc_file : toc_file[k].kind = kind /\ toc_file[k].href = href}

LinkKinds == {"li_front", "a_part", "li_chapter"}

AllLinksTo(href) ==
    {k \in DOMAIN toc_file : toc_file[k].kind \in LinkKinds /\ toc_file[k].href = href}

\* the index of the first level-2 record, Len(chapters) + 1 when there is none
FirstPartIndex ==
    Min({i \in DOMAIN chapters : chapters[i].level = 2} \cup {Len(chapters) + 1})

\* the index of the first level-2 record after i, Len(chapters) + 1 when there is none
NextPartIndex(i) ==
    Min({j \in DOMAIN chapters : j > i /\ chapters[j].level = 2} \cup {Len(chapters) + 1})

TocWritten == "write_toc" \in Range(events)

\* C1: once toc.xhtml is written, every chapter record is linked exactly once:
\* a level-2 record by one part link, a level-3 record after the first level-2
\* record by one child link, a level-3 record before it by one front-matter
\* link, and by no other link.
C1_EveryChapterLinkedOnce ==
    TocWritten =>
        \A i \in DOMAIN chapters :
            LET role == IF chapters[i].level = 2 THEN "a_part"
                        ELSE IF i > FirstPartIndex THEN "li_chapter"
                        ELSE "li_front"
            IN  /\ Cardinality(LinksTo(role, HrefOf(chapters[i]))) = 1
                /\ Cardinality(AllLinksTo(HrefOf(chapters[i]))) = 1

\* the manifest id of a filename, stated without split: the longest prefix
\* that holds no hyphen
IsSegmentBeforeFirstHyphen(x, filename) ==
    /\ IsPrefix(x, filename)
    /\ \A k \in DOMAIN x : x[k] # "-"
    /\ (Len(x) < Len(filename) => filename[Len(x) + 1] = "-")

OpfWritten == "write_opf" \in Range(events)

\* C2: once content.opf is written, the spine is cover, title-page, nav and
\* then one idref per chapter in scan order, each the chapter filename's
\* segment before its first hyphen; the manifest's chapter items follow its
\* five fixed items in the same order with href Text/<filename>; and every
\* spine idref is the id of some manifest item.
C2_SpineAndManifestFollowScanOrder ==
    OpfWritten =>
        LET sp == opf_file.spine
            mf == opf_file.manifest
        IN  /\ Len(sp) = 3 + Len(chapters)
            /\ SubSeq(sp, 1, 3) = <<Id_cover, Id_title_page, Id_nav>>
            /\ Len(mf) = 5 + Len(chapters)
            /\ \A i \in DOMAIN chapters :
                   /\ IsSegmentBeforeFirstHyphen(sp[3 + i], chapters[i].filename)
                   /\ mf[5 + i].id = sp[3 + i]
                   /\ mf[5 + i].href = HrefOf(chapters[i])
            /\ \A k \in DOMAIN sp : \E j \in DOMAIN mf : mf[j].id = sp[k]

\* content.opf is written for three or more chapters, one of them with a
\* filename that has no hyphen and two of them with the same slug
C2_Witness ==
    /\ OpfWritten
    /\ Len(chapters) >= 3
    /\ \E i \in DOMAIN chapters : chapters[i].filename = F_ch4
    /\ \E i, j \in DOMAIN chapters : i # j /\ chapters[i].id = chapters[j].id

\* C3: the first entry of the archive is "mimetype", stored uncompressed, and
\* no later entry has the archive path "mimetype".
C3_MimetypeFirstAndStored ==
    archive # <<>> =>
        /\ archive[1].arcname = MimetypePath
        /\ archive[1].compress_type = "ZIP_STORED"
        /\ \A i \in 2..Len(archive) : archive[i].arcname # MimetypePath

\* the walk is over for a tree that holds a second file named mimetype, in a
\* subdirectory, and the archive holds it after the first entry
C3_Witness ==
    /\ pc = "done"
    /\ <<N_oebps, N_mimetype>> \in tree
    /\ \E i \in 2..Len(archive) : archive[i].arcname = <<N_oebps, N_mimetype>>

\* a directory name the walk prunes, and a file path the packaging leaves out
PrunedName(n) == n[1] = "." \/ n = N_pycache

Excluded(p) ==
    \/ \E k \in 1..(Len(p) - 1) : PrunedName(p[k])
    \/ \E suf \in {SufPy, SufEpub, SufDsStore} :
           /\ Len(p[Len(p)]) >= Len(suf)
           /\ SubSeq(p[Len(p)], Len(p[Len(p)]) - Len(suf) + 1, Len(p[Len(p)])) = suf

\* C4: no entry is written twice, no excluded file is written, the walk never
\* yields a directory below a pruned one, and when packaging is done the
\* archive paths are exactly the paths of the files of the tree that are not
\* excluded (mimetype among them).
C4_ArchiveIsTheNonExcludedFiles ==
    /\ \A i, j \in DOMAIN archive : archive[i].arcname = archive[j].arcname => i = j
    /\ \A i \in DOMAIN archive :
           archive[i].arcname \in tree /\ ~Excluded(archive[i].arcname)
    /\ \A d \in visited : \A k \in DOMAIN d : ~PrunedName(d[k])
    /\ pc = "done" =>
           {archive[i].arcname : i \in DOMAIN archive} = {p \in tree : ~Excluded(p)}

\* packaging is done for a tree with a file below a hidden directory, a script
\* in a subdirectory, a file in a directory whose name ends in .py, and the
\* archive being written
C4_Witness ==
    /\ pc = "done"
    /\ <<N_git, N_oebps, N_toc>> \in tree
    /\ <<N_oebps, N_tool_py>> \in tree
    /\ <<N_pydir, N_config>> \in tree
    /\ OUTPUT_EPUB \in tree
    /\ Len(archive) >= 4

\* the title C5 describes: the span with tags stripped, entities decoded, and
\* then trimmed; the id when there is no title element
ClaimedTitle(content, chapter_id) ==
    LET m == title_match(content)
    IN  IF m = <<>> THEN chapter_id ELSE strip(decode_entities(sub_tags(m[1])))

\* C5: every discovered chapter's title is the first <title> span with tags
\* stripped, the five entities decoded and whitespace trimmed, so it neither
\* begins nor ends with whitespace; without a title element it is the id.
C5_TitleIsTrimmedSpanOrId ==
    pc = "write_toc" =>
        \A i \in DOMAIN chapters :
            LET content == text_dir[chapters[i].filename].text
                title   == chapters[i].title
            IN  /\ title = ClaimedTitle(content, chapters[i].id)
                /\ title_match(content) # <<>> /\ title # <<>> =>
                       Head(title) \notin Whitespace /\ title[Len(title)] \notin Whitespace

\* C6: whichever way the formatter step fails, the run is not ended by it.
C6_FormatterFailureNeverFatal ==
    fmt_result \in FormatErrors => error # "format"

\* the files the run found at its start
InitialTree == TreeOf(text_dir) \cup (IF epub_pre THEN {OUTPUT_EPUB} ELSE {})

\* C7: when discovery fails, no stage has had or has any effect: nothing was
\* written, the formatter was not run, the archive was neither removed nor
\* created, and no chapter list is in use.
C7_DiscoveryFailureWritesNothing ==
    error = "discover" =>
        /\ pc = "aborted"
        /\ events = <<>>
        /\ chapters = <<>>
        /\ toc_file = <<>>
        /\ opf_file = EmptyOpf
        /\ fmt_result = "none"
        /\ archive = <<>>
        /\ tree = InitialTree

\* discovery failed in a directory that holds chapter files, with an archive
\* of an earlier build in place
C7_Witness ==
    /\ error = "discover"
    /\ chapter_filenames(text_dir) # <<>>
    /\ epub_pre

StageOrder == <<"write_toc", "write_opf", "format", "remove", "create">>

IsPrefixOf(s, full) == Len(s) <= Len(full) /\ SubSeq(full, 1, Len(s)) = s

\* C8: the stages take effect in the order write toc.xhtml, write content.opf,
\* format, remove the existing archive (when there is one), create the archive;
\* and after a failed write of toc.xhtml or content.opf no later stage has any
\* effect: the existing archive is still there and no archive was created.
C8_WriteErrorAbortsLaterStages ==
    /\ \/ IsPrefixOf(events, StageOrder)
       \/ IsPrefixOf(events, <<"write_toc", "write_opf", "format", "create">>)
    /\ "remove" \in Range(events) => epub_pre
    /\ error = "write_toc" => events = <<>>
    /\ error = "write_opf" => events = <<"write_toc">>
    /\ error \in {"write_toc", "write_opf"} =>
           /\ pc = "aborted"
           /\ opf_file = EmptyOpf
           /\ fmt_result = "none"
           /\ archive = <<>>
           /\ (OUTPUT_EPUB \in tree) = epub_pre

\* the write of content.opf failed while an archive of an earlier build exists
C8_Witness ==
    /\ error = "write_opf"
    /\ epub_pre
    /\ Len(chapters) >= 1

\* the entry the tree holds for a chapter record
EntryOf(i) == [title |-> chapters[i].title, href |-> HrefOf(chapters[i])]

\* the last level-2 record that carries the part id
LastPartIndex(pid) ==
    CHOOSE i \in DOMAIN chapters :
        /\ chapters[i].level = 2 /\ chapters[i].id = pid
        /\ \A j \in DOMAIN chapters :
               chapters[j].level = 2 /\ chapters[j].id = pid => j <= i

PartMap == nav_tree.parts_by_id.val

PartLinks(lo, hi) ==
    LET links == SelectSeq(SubSeq(toc_file, lo, hi), LAMBDA l : l.kind = "a_part")
    IN  [k \in 1..Len(links) |-> links[k].href]

\* the positions of the section headings, in order
RECURSIVE Positions(_, _)
Positions(kind, from) ==
    IF from > Len(toc_file) THEN <<>>
    ELSE (IF toc_file[from].kind = kind THEN <<from>> ELSE <<>>)
         \o Positions(kind, from + 1)

\* the first line at or after k that closes a list of the front matter or of parts
ListEnd(k) == Min({j \in k..Len(toc_file) : toc_file[j].kind = "ol_end"})

\* the ids of the derived mapping that a section's list names, in its order
ListedParts(part_ids) == SelectSeq(part_ids, LAMBDA pid : pid \in DOMAIN PartMap)

\* the ids of the derived mapping that no section names, in the order in which
\* the scan first met them
UnlistedParts ==
    LET firsts == SelectSeq([i \in DOMAIN chapters |-> i],
                     LAMBDA i : /\ chapters[i].level = 2
                                /\ \A j \in 1..(i - 1) :
                                       ~(chapters[j].level = 2 /\ chapters[j].id = chapters[i].id)
                                /\ \A s \in DOMAIN sections :
                                       chapters[i].id \notin Range(sections[s].part_ids))
    IN  [k \in 1..Len(firsts) |-> chapters[firsts[k]].id]

HrefsOf(pids) == [k \in 1..Len(pids) |-> PartMap[pids[k]].href]

\* C10: toc.xhtml holds one heading per configured section, in configured
\* order; the list under the heading of a section links the parts the section
\* names, in the section's order, leaving out the ids that are no part; and
\* the parts that no section names are linked after the last section's list,
\* in one list, in the order in which the scan first met their ids (no such
\* list when there are none).
C10_SectionsThenUngroupedParts ==
    TocWritten =>
        LET h2 == Positions("h2", 1)
            frontEnd == ListEnd(1)
            lastEnd == IF h2 = <<>> THEN frontEnd ELSE ListEnd(h2[Len(h2)])
        IN  /\ Len(h2) = Len(sections)
            /\ PartLinks(1, frontEnd) = <<>>
            /\ \A s \in DOMAIN sections :
                   /\ toc_file[h2[s]].title = sections[s].title
                   /\ h2[s] = (IF s = 1 THEN frontEnd ELSE ListEnd(h2[s - 1])) + 1
                   /\ toc_file[h2[s] + 1].kind = "ol_parts"
                   /\ PartLinks(h2[s], ListEnd(h2[s])) =
                          HrefsOf(ListedParts(sections[s].part_ids))
            /\ IF UnlistedParts = <<>> THEN Len(toc_file) = lastEnd
               ELSE /\ toc_file[lastEnd + 1].kind = "ol_parts"
                    /\ toc_file[Len(toc_file)].kind = "ol_end"
                    /\ ListEnd(lastEnd + 1) = Len(toc_file)
                    /\ PartLinks(lastEnd + 1, Len(toc_file)) = HrefsOf(UnlistedParts)

\* toc.xhtml is written for two sections, one naming an id that is no part and
\* one naming a part, while two further parts are named by no section
C10_Witness ==
    /\ TocWritten
    /\ Len(sections) = 2
    /\ Id_z \in Range(sections[1].part_ids)
    /\ Id_b \in Range(sections[2].part_ids) /\ Id_b \in DOMAIN PartMap
    /\ Len(UnlistedParts) = 2

====
